---- MODULE Spec2Model ----
(***************************************************************************)
(* Contract signing workflow (apps/contracts) and quota-gated LLM usage    *)
(* accounting (apps/llm) of the docbiz backend.                            *)
(*                                                                         *)
(* The state is the content of the database rows the handlers read and     *)
(* write (one contract with its signature fields, one organization's       *)
(* LLMQuota row and its LLMUsage rows), the rate-limit cache entry, the    *)
(* wall clock, and the HTTP response of the last request.  Python objects  *)
(* loaded by a handler are copies of a row: what a handler changes on a    *)
(* copy reaches the row only through save().                               *)
(*                                                                         *)
(* Time is counted in days.  A nullable column is a set with at most one   *)
(* element: {} is NULL.  A blank CharField/TextField is "" (or {} for the  *)
(* signing token, whose values are numbered).                              *)
(***************************************************************************)
EXTENDS Integers, Sequences, FiniteSets, TLC

\* ---------------------------------------------------------------- bounds
MaxNow == 60
MaxToken == 2
MaxRequests == 3
MaxMinute == 1
TextLimit == 2
MaxIds == 3
MaxEntities == 2
MaxConnections == 1

\* ------------------------------------------------------ program constants
DEFAULT_EXPIRY_DAYS == 30

None == {}
Some(x) == {x}

Fields == {"A", "B"}
Signers == {"s1", "s2"}
Party == "P1"
SignatureData == {"", "sigX", "sigY"}
Tokens == 1..MaxToken

ContractStatus ==
  {"draft", "sent", "viewed", "signed", "completed", "expired", "declined", "cancelled"}

VARIABLES
  now,           \* timezone.now(), in days
  status,        \* Contract.status
  sent_at,       \* Contract.sent_at
  expires_at,    \* Contract.expires_at
  completed_at,  \* Contract.completed_at
  fields,        \* the SignatureField rows of the contract
  response,      \* the response of the last contract request
  signer,        \* per signing request in progress: the field object it loaded
  party          \* the ContractParty row the fields are assigned to

cvars == <<now, status, sent_at, expires_at, completed_at, fields, response, signer,
           party>>

VARIABLES
  quota,        \* the organization's LLMQuota row
  usage,        \* the organization's LLMUsage rows, in order of creation
  model,        \* the default LLMModel row (its prices)
  requests_per_minute,   \* LLMProvider.requests_per_minute
  minute,       \* int(time.time() // 60)
  rate_cache,   \* cache entries llm_rate_limit:<provider>:<minute>
  pc,           \* where each request handler is
  svc,          \* per handler: LLMService.quota, the object loaded in __init__
  req,          \* per handler: estimated tokens, cache key and count read
  chk,          \* per handler: what can_make_request returned
  started,      \* number of requests begun
  lresponse,    \* response of the last finished LLM request
  dispatched,   \* number of provider calls generate_content has made
  passed        \* per minute: requests _check_rate_limit has let through

qvars == <<quota, usage, model, requests_per_minute, minute, rate_cache,
           pc, svc, req, chk, started, lresponse, dispatched, passed>>

VARIABLES
  chart,        \* OrgChart.data of the organization's chart
  hresponse     \* status code of the last chart request

hvars == <<chart, hresponse>>

Resp(code, error) == [code |-> code, error |-> error]

\* A SignatureField row as created through SignatureFieldViewSet: assigned_to
\* is a NOT NULL foreign key, token and signed data are blank, signed_at NULL.
NewField(required, field_type) ==
  [required |-> required, field_type |-> field_type, assigned_to |-> Some(Party),
   signing_token |-> None, signed_data |-> "", signed_at |-> None]

\* SignatureField.FieldType of the two fields: one signature, one text field.
FieldTypeOf == [f \in Fields |-> IF f = "A" THEN "signature" ELSE "text"]

\* A ContractParty row as created: no signing information.
NewParty == [signed_at |-> None, signing_ip |-> None]
IpAddress == "ip1"

\* A signing request that holds no object.
NoSigner == [pc |-> "idle", field |-> "A", data |-> "", obj |-> NewField(TRUE, "signature")]

ContractInit ==
  /\ signer = [s \in Signers |-> NoSigner]
  /\ now = 0
  /\ status = "draft"
  /\ sent_at = None
  /\ expires_at = None
  /\ completed_at = None
  /\ \E required \in [Fields -> BOOLEAN] :
       /\ required["A"]
       /\ fields = [f \in Fields |-> NewField(required[f], FieldTypeOf[f])]
  /\ party = NewParty
  /\ response = Resp(0, "none")

\* ------------------------------------------------------- Contract methods

\* Contract.is_expired
is_expired_inverted == \E e \in expires_at : now < e
is_expired == \E e \in expires_at : now > e

\* SignatureField.is_signed: bool(self.signed_data and self.signed_at)
is_signed_always_false(obj) == FALSE
is_signed(obj) == obj.signed_data # "" /\ obj.signed_at # None

\* The name FieldType is bound only in the class body of SignatureField; it is
\* not a module global, so the lookup in SignatureField.sign raises NameError.
FieldTypeInScope == FALSE

\* Contract defines no check_completion method.
ContractHasCheckCompletion == FALSE

\* SignatureField.sign(data, ip_address) on a loaded row obj: the row as it is
\* stored when the call returns or raises, whether the party was stamped and
\* saved, and the exception raised.
sign_consuming_token(obj, data) ==
  IF is_signed(obj)
  THEN [row |-> obj, stamp |-> FALSE, raised |-> "Field has already been signed"]
  ELSE [row |-> [obj EXCEPT !.signed_data = data, !.signed_at = Some(now),
                            !.signing_token = None],
        stamp |-> FALSE, raised |-> "NameError"]

sign(obj, data) ==
  IF is_signed(obj)
  THEN [row |-> obj, stamp |-> FALSE, raised |-> "Field has already been signed"]
  ELSE LET saved == [obj EXCEPT !.signed_data = data, !.signed_at = Some(now)]
           stamp == obj.field_type = "signature"
       IN  IF ~FieldTypeInScope
           THEN [row |-> saved, stamp |-> FALSE, raised |-> "NameError"]
           ELSE IF ~ContractHasCheckCompletion
                THEN [row |-> saved, stamp |-> stamp, raised |-> "AttributeError"]
                ELSE [row |-> saved, stamp |-> stamp, raised |-> "none"]

\* The party row after sign stamped it: signed_at and signing_ip set, saved.
StampedParty == [signed_at |-> Some(now), signing_ip |-> Some(IpAddress)]

\* SignatureField.generate_signing_token: secrets.token_urlsafe(32) is a value
\* no other field carries.
FreshTokens == {t \in Tokens : \A f \in Fields : fields[f].signing_token # Some(t)}

\* SignatureField.objects.get(signing_token=token)
FieldsByToken(t) == {f \in Fields : fields[f].signing_token = Some(t)}

\* ------------------------------------------------------------- operations

\* The clock advances.
Tick ==
  /\ now + DEFAULT_EXPIRY_DAYS <= MaxNow
  /\ now' = now + DEFAULT_EXPIRY_DAYS
  /\ UNCHANGED <<party, signer, status, sent_at, expires_at, completed_at, fields, response>>
  /\ UNCHANGED <<qvars, hvars>>

\* Contract.send_for_signature as called by ContractViewSet.send_for_signature.
\* The tokens generated in the loop are set on the loaded field objects only:
\* no field is saved, so no SignatureField row changes.
send_no_draft_guard ==
  /\ status' = "sent"
  /\ sent_at' = Some(now)
  /\ expires_at' = IF expires_at = None THEN Some(now + DEFAULT_EXPIRY_DAYS) ELSE expires_at
  /\ response' = Resp(200, "none")
  /\ UNCHANGED <<party, signer, now, completed_at, fields>>
  /\ UNCHANGED <<qvars, hvars>>

send_resets_expiry ==
  /\ UNCHANGED <<qvars, hvars>>
  /\ IF status # "draft"
     THEN /\ response' = Resp(400, "Only draft contracts can be sent for signature")
          /\ UNCHANGED <<party, signer, now, status, sent_at, expires_at, completed_at, fields>>
     ELSE /\ status' = "sent"
          /\ sent_at' = Some(now)
          /\ expires_at' = Some(now + DEFAULT_EXPIRY_DAYS)
          /\ response' = Resp(200, "none")
          /\ UNCHANGED <<party, signer, now, completed_at, fields>>

send_for_signature ==
  /\ UNCHANGED <<qvars, hvars>>
  /\ IF status # "draft"
     THEN /\ response' = Resp(400, "Only draft contracts can be sent for signature")
          /\ UNCHANGED <<party, signer, now, status, sent_at, expires_at, completed_at, fields>>
     ELSE IF \E f \in Fields : fields[f].assigned_to = None
     THEN /\ response' = Resp(400, "All signature fields must be assigned before sending")
          /\ UNCHANGED <<party, signer, now, status, sent_at, expires_at, completed_at, fields>>
     ELSE /\ status' = "sent"
          /\ sent_at' = Some(now)
          /\ expires_at' = IF expires_at = None
                           THEN Some(now + DEFAULT_EXPIRY_DAYS)
                           ELSE expires_at
          /\ response' = Resp(200, "none")
          /\ UNCHANGED <<party, signer, now, completed_at, fields>>

\* Contract.send_for_signature of a draft contract in which a step after the
\* two guards raises: generate_signing_token for some field, or self.save().
\* Everything set so far is on the loaded objects; the view answers 400.
SendFaults == {"token generation failed", "save failed"}

send_fails_after_partial_save(fault) ==
  /\ status = "draft"
  /\ \A f \in Fields : fields[f].assigned_to # None
  /\ \E t \in FreshTokens : fields' = [fields EXCEPT !["A"].signing_token = Some(t)]
  /\ response' = Resp(400, fault)
  /\ UNCHANGED <<party, signer, now, status, sent_at, expires_at, completed_at>>
  /\ UNCHANGED <<qvars, hvars>>

send_for_signature_fails(fault) ==
  /\ status = "draft"
  /\ \A f \in Fields : fields[f].assigned_to # None
  /\ response' = Resp(400, fault)
  /\ UNCHANGED <<party, signer, now, status, sent_at, expires_at, completed_at, fields>>
  /\ UNCHANGED <<qvars, hvars>>

\* ContractViewSet.partial_update: status is a writable field of
\* ContractSerializer; sent_at, expires_at and completed_at are read-only.
update_status(s) ==
  /\ status' = s
  /\ response' = Resp(200, "none")
  /\ UNCHANGED <<party, signer, now, sent_at, expires_at, completed_at, fields>>
  /\ UNCHANGED <<qvars, hvars>>

\* Contract.get_signing_url(signature_field): the one place that saves a
\* generated token with its field.
get_signing_url(f) ==
  /\ UNCHANGED <<qvars, hvars>>
  /\ IF fields[f].signing_token = None
     THEN /\ \E t \in FreshTokens : fields' = [fields EXCEPT ![f].signing_token = Some(t)]
          /\ UNCHANGED <<party, signer, now, status, sent_at, expires_at, completed_at, response>>
     ELSE UNCHANGED <<cvars, hvars>>

\* PublicSigningView.post
PublicSigningPost(t, d) ==
  LET m == FieldsByToken(t) IN
  /\ UNCHANGED <<signer, now, status, sent_at, expires_at, completed_at>>
  /\ UNCHANGED <<qvars, hvars>>
  /\ IF m = {}
     THEN /\ response' = Resp(404, "Invalid signing token")
          /\ UNCHANGED <<fields, party>>
     ELSE IF Cardinality(m) > 1
     THEN /\ response' = Resp(400, "MultipleObjectsReturned")
          /\ UNCHANGED <<fields, party>>
     ELSE LET f == CHOOSE x \in m : TRUE IN
          IF is_expired
          THEN /\ response' = Resp(410, "This signing link has expired")
               /\ UNCHANGED <<fields, party>>
          ELSE IF is_signed(fields[f])
          THEN /\ response' = Resp(400, "This document has already been signed")
               /\ UNCHANGED <<fields, party>>
          ELSE IF d = ""
          THEN /\ response' = Resp(400, "Signature data is required")
               /\ UNCHANGED <<fields, party>>
          ELSE LET r == sign(fields[f], d) IN
               /\ fields' = [fields EXCEPT ![f] = r.row]
               /\ party' = IF r.stamp THEN StampedParty ELSE party
               /\ response' = IF r.raised = "none"
                              THEN Resp(200, "Successfully signed")
                              ELSE Resp(400, r.raised)

\* PublicSigningView.post handled by a worker of its own, up to the call of
\* sign: the lookup loads the field, the checks are made on the loaded object.
SigningLoad(s, t, d) ==
  LET m == FieldsByToken(t) IN
  /\ signer[s].pc = "idle"
  /\ UNCHANGED <<party, now, status, sent_at, expires_at, completed_at, fields>>
  /\ UNCHANGED <<qvars, hvars>>
  /\ IF m = {}
     THEN /\ response' = Resp(404, "Invalid signing token")
          /\ UNCHANGED signer
     ELSE IF Cardinality(m) > 1
     THEN /\ response' = Resp(400, "MultipleObjectsReturned")
          /\ UNCHANGED signer
     ELSE LET f == CHOOSE x \in m : TRUE IN
          IF is_expired
          THEN /\ response' = Resp(410, "This signing link has expired")
               /\ UNCHANGED signer
          ELSE IF is_signed(fields[f])
          THEN /\ response' = Resp(400, "This document has already been signed")
               /\ UNCHANGED signer
          ELSE IF d = ""
          THEN /\ response' = Resp(400, "Signature data is required")
               /\ UNCHANGED signer
          ELSE /\ signer' = [signer EXCEPT ![s] = [pc |-> "loaded", field |-> f,
                                                   data |-> d, obj |-> fields[f]]]
               /\ UNCHANGED response

\* The rest of PublicSigningView.post: sign on the loaded object, whose save()
\* writes every column of the object to the field's row.
SigningSign(s) ==
  /\ signer[s].pc = "loaded"
  /\ UNCHANGED <<now, status, sent_at, expires_at, completed_at>>
  /\ UNCHANGED <<qvars, hvars>>
  /\ LET r == sign(signer[s].obj, signer[s].data) IN
       /\ fields' = IF r.row = signer[s].obj
                    THEN fields
                    ELSE [fields EXCEPT ![signer[s].field] = r.row]
       /\ party' = IF r.stamp THEN StampedParty ELSE party
       /\ response' = IF r.raised = "none"
                      THEN Resp(200, "Successfully signed")
                      ELSE Resp(400, r.raised)
  /\ signer' = [signer EXCEPT ![s] = NoSigner]

\* ======================================================================
\* LLM usage accounting (apps/llm)
\* ======================================================================

\* Money: LLMModel prices are DecimalFields with 6 decimal places, held here
\* in micro-dollars per 1K tokens; a cost is held in nano-dollars, which makes
\* tokens/1000 * price exact.  The quota's cost columns have 2 decimal places
\* and are held in cents.
NanoPerCent == 10000000
NanoPerMicro == 1000

Workers == {"w1", "w2"}
Prompts == {<<"a">>, <<"a", "b", " ", "c">>}    \* the request's prompt, by character
ProviderResults ==                \* what the provider call returns, or raises
  {[ok |-> TRUE, prompt_tokens |-> 1, completion_tokens |-> 1, content |-> <<"x">>],
   [ok |-> TRUE, prompt_tokens |-> 2, completion_tokens |-> 1,
    content |-> <<"w", "x", "y", "z">>],
   [ok |-> FALSE, prompt_tokens |-> 0, completion_tokens |-> 0, content |-> <<>>]}
ContractArgs == {None, Some("c1")}    \* the keyword argument contract of generate_content
ModelPrices ==
  {[input_price |-> 125, output_price |-> 375],
   [input_price |-> 4000000, output_price |-> 4000000]}
TokenLimits == {None, Some(0), Some(1)}
RequestLimits == {None, Some(2)}
CostLimits == {None, Some(1)}
RateLimits == {1, 2}

\* The first day of the month after the one day t lies in; months are
\* counted as 30 days.
first_day_of_next_month(t) == ((t \div 30) + 1) * 30

\* The row get_or_create makes for an organization without one.
NoQuota == [monthly_token_limit |-> None, tokens_used_current_month |-> 0,
            monthly_request_limit |-> None, requests_used_current_month |-> 0,
            monthly_cost_limit |-> None, cost_used_current_month |-> 0,
            is_suspended |-> FALSE, last_reset_at |-> None,
            next_reset_at |-> Some(first_day_of_next_month(0))]
NoReq == [prompt |-> <<>>, estimated_tokens |-> 0, cache_key |-> 0, current_requests |-> 0]
NoChk == <<TRUE, "none">>

\* The quota row as get_or_create and LLMQuota.save leave it: counters at
\* their default 0, next_reset_at set to the first day of the next month.
QuotaInit ==
  /\ \E tl \in TokenLimits, rl \in RequestLimits, cl \in CostLimits, su \in BOOLEAN :
       quota = [monthly_token_limit |-> tl, tokens_used_current_month |-> 0,
                monthly_request_limit |-> rl, requests_used_current_month |-> 0,
                monthly_cost_limit |-> cl, cost_used_current_month |-> 0,
                is_suspended |-> su, last_reset_at |-> None,
                next_reset_at |-> Some(first_day_of_next_month(0))]
  /\ usage = <<>>
  /\ model \in ModelPrices
  /\ requests_per_minute \in RateLimits
  /\ minute = 0
  /\ rate_cache = [k \in 0..MaxMinute |-> 0]
  /\ pc = [w \in Workers |-> "idle"]
  /\ svc = [w \in Workers |-> NoQuota]
  /\ req = [w \in Workers |-> NoReq]
  /\ chk = [w \in Workers |-> NoChk]
  /\ started = 0
  /\ lresponse = Resp(0, "none")
  /\ dispatched = 0
  /\ passed = [k \in 0..MaxMinute |-> 0]

\* Python truth value of a nullable number: None and 0 are false.
Truthy(limit) == \E l \in limit : l # 0

\* LLMQuota.can_make_request(estimated_tokens, estimated_cost); the cost is in
\* cents.
can_make_request_tokens_first(q, estimated_tokens, estimated_cost) ==
  IF Truthy(q.monthly_token_limit)
     /\ \E l \in q.monthly_token_limit : q.tokens_used_current_month + estimated_tokens > l
  THEN <<FALSE, "Monthly token limit exceeded">>
  ELSE IF q.is_suspended
  THEN <<FALSE, "LLM usage is suspended for this organization">>
  ELSE <<TRUE, "OK">>

can_make_request(q, estimated_tokens, estimated_cost) ==
  IF q.is_suspended
  THEN <<FALSE, "LLM usage is suspended for this organization">>
  ELSE IF Truthy(q.monthly_token_limit)
          /\ \E l \in q.monthly_token_limit : q.tokens_used_current_month + estimated_tokens > l
  THEN <<FALSE, "Monthly token limit exceeded">>
  ELSE IF Truthy(q.monthly_request_limit)
          /\ \E l \in q.monthly_request_limit : q.requests_used_current_month + 1 > l
  THEN <<FALSE, "Monthly request limit exceeded">>
  ELSE IF Truthy(q.monthly_cost_limit)
          /\ \E l \in q.monthly_cost_limit : q.cost_used_current_month + estimated_cost > l
  THEN <<FALSE, "Monthly cost limit exceeded">>
  ELSE <<TRUE, "OK">>

\* LLMModel.calculate_cost, in nano-dollars.
calculate_cost(m, input_tokens, output_tokens) ==
  input_tokens * m.input_price + output_tokens * m.output_price

\* What a DecimalField column keeps of a value: the nearest multiple of its
\* last decimal place.  Which neighbour a value exactly half way becomes
\* depends on who rounds (the field or the database), so both are possible.
Quantize(x, unit) ==
  LET q == x \div unit
      r == x % unit
  IN  IF 2 * r < unit THEN {q} ELSE IF 2 * r > unit THEN {q + 1} ELSE {q, q + 1}

\* LLMService._record_usage up to the LLMUsage row: the cost it calculates.
record_cost(m, tokens_prompt, tokens_completion) ==
  IF tokens_prompt + tokens_completion > 0
  THEN calculate_cost(m, tokens_prompt, tokens_completion)
  ELSE 0

\* LLMUsage.objects.create in _record_usage: provider_request_id and
\* model_used are NOT NULL CharFields, and the except branch of
\* generate_content passes neither, so they arrive as None.
usage_create_raises(provider_request_id, model_used) ==
  provider_request_id = None \/ model_used = None

\* len(prompt.split()): the number of maximal runs of non-blank characters.
WordCount(p) ==
  Cardinality({i \in 1..Len(p) : p[i] # " " /\ (i = 1 \/ p[i - 1] = " ")})

\* The cut LLMUsage.save makes of a text longer than the limit: its first
\* TextLimit characters followed by "...".
Ellipsis == <<".", ".", ".">>
Truncate_appending(s) == IF Len(s) > TextLimit THEN s \o Ellipsis ELSE s
Truncate(s) == IF Len(s) > TextLimit THEN SubSeq(s, 1, TextLimit) \o Ellipsis ELSE s

\* The LLMUsage object _record_usage hands to LLMUsage.objects.create for a
\* successful call; costs in nano-dollars.
NewUsage(prompt, result, m) ==
  LET cost == record_cost(m, result.prompt_tokens, result.completion_tokens)
  IN  [status |-> "success", tokens_prompt |-> result.prompt_tokens,
       tokens_completion |-> result.completion_tokens,
       tokens_total |-> result.prompt_tokens + result.completion_tokens,
       cost_estimated |-> cost, cost_calculated |-> cost,
       input_context |-> prompt, generated_content |-> result.content,
       contract |-> None]

\* LLMUsage.save on the object u whose model is m: the object as it is
\* written.
LLMUsage_save(u, m) ==
  LET total == u.tokens_prompt + u.tokens_completion
      calculated == IF total > 0
                    THEN calculate_cost(m, u.tokens_prompt, u.tokens_completion)
                    ELSE u.cost_calculated
  IN  [u EXCEPT !.tokens_total = total,
                !.cost_calculated = calculated,
                !.cost_estimated = IF u.cost_estimated = 0 /\ calculated > 0
                                   THEN calculated ELSE u.cost_estimated,
                !.input_context = Truncate(u.input_context),
                !.generated_content = Truncate(u.generated_content)]

\* The row of the object u in the table, its cost columns holding stored
\* micro-dollars.
StoredUsage(u, stored) == [u EXCEPT !.cost_estimated = stored, !.cost_calculated = stored]

\* LLMQuota.record_usage on the loaded object q: the values of the object
\* after the three increments, the cost in nano-dollars.
record_usage(q, tokens_prompt, tokens_completion, cost) ==
  [tokens |-> q.tokens_used_current_month + tokens_prompt + tokens_completion,
   requests |-> q.requests_used_current_month + 1,
   cost |-> q.cost_used_current_month * NanoPerCent + cost]

\* ------------------------------------------------- LLMRequestView.post

\* LLMService.__init__ loads the quota; generate_content resolves provider and
\* model and _check_rate_limit reads the cache entry of the current minute.
Begin(w, p) ==
  /\ pc[w] = "idle"
  /\ started < MaxRequests
  /\ started' = started + 1
  /\ svc' = [svc EXCEPT ![w] = quota]
  /\ req' = [req EXCEPT ![w] = [prompt |-> p, estimated_tokens |-> WordCount(p),
                                cache_key |-> minute,
                                current_requests |-> rate_cache[minute]]]
  /\ chk' = [chk EXCEPT ![w] = NoChk]
  /\ pc' = [pc EXCEPT ![w] = "rate"]
  /\ UNCHANGED <<cvars, hvars>>
  /\ UNCHANGED <<quota, usage, model, requests_per_minute, minute, rate_cache, lresponse,
                 dispatched, passed>>

\* The except branch of generate_content: _record_usage with status error.
\* LLMUsage.objects.create raises, the exception leaves generate_content in
\* place of the original one and LLMRequestView.post answers 400 with it.
RecordFailure(w, error) ==
  /\ IF usage_create_raises(None, None)
     THEN /\ usage' = usage
          /\ lresponse' = Resp(400, "IntegrityError")
     ELSE /\ usage' = Append(usage, [status |-> "error", tokens_prompt |-> 0,
                                     tokens_completion |-> 0, tokens_total |-> 0,
                                     cost_estimated |-> 0, cost_calculated |-> 0,
                                     input_context |-> Truncate(req[w].prompt),
                                     generated_content |-> <<>>, contract |-> None])
          /\ lresponse' = Resp(400, error)
  /\ pc' = [pc EXCEPT ![w] = "idle"]
  /\ svc' = [svc EXCEPT ![w] = NoQuota]
  /\ req' = [req EXCEPT ![w] = NoReq]
  /\ UNCHANGED <<quota, model, requests_per_minute, minute, started>>

\* _check_rate_limit from the comparison on, then _check_quota.
CheckLimits_reserving(w) ==
  /\ pc[w] = "rate"
  /\ UNCHANGED <<cvars, hvars>>
  /\ IF req[w].current_requests >= requests_per_minute
     THEN /\ RecordFailure(w, "Rate limit exceeded")
          /\ UNCHANGED <<rate_cache, chk, dispatched, passed>>
     ELSE /\ rate_cache' = [rate_cache EXCEPT ![req[w].cache_key] = req[w].current_requests + 1]
          /\ chk' = [chk EXCEPT ![w] = can_make_request(svc[w], req[w].estimated_tokens, 0)]
          /\ pc' = [pc EXCEPT ![w] = "checked"]
          /\ passed' = [passed EXCEPT ![req[w].cache_key] = @ + 1]
          /\ quota' = [quota EXCEPT !.tokens_used_current_month = @ + req[w].estimated_tokens]
          /\ UNCHANGED <<usage, model, requests_per_minute, minute, svc, req,
                         started, lresponse, dispatched>>

CheckLimits_unlimited(w) ==
  /\ pc[w] = "rate"
  /\ UNCHANGED <<cvars, hvars>>
  /\ IF FALSE
     THEN /\ RecordFailure(w, "Rate limit exceeded")
          /\ UNCHANGED <<rate_cache, chk, dispatched, passed>>
     ELSE /\ rate_cache' = [rate_cache EXCEPT ![req[w].cache_key] = req[w].current_requests + 1]
          /\ chk' = [chk EXCEPT ![w] = can_make_request(svc[w], req[w].estimated_tokens, 0)]
          /\ pc' = [pc EXCEPT ![w] = "checked"]
          /\ passed' = [passed EXCEPT ![req[w].cache_key] = @ + 1]
          /\ UNCHANGED <<quota, usage, model, requests_per_minute, minute, svc, req,
                         started, lresponse, dispatched>>

CheckLimits(w) ==
  /\ pc[w] = "rate"
  /\ UNCHANGED <<cvars, hvars>>
  /\ IF req[w].current_requests >= requests_per_minute
     THEN /\ RecordFailure(w, "Rate limit exceeded")
          /\ UNCHANGED <<rate_cache, chk, dispatched, passed>>
     ELSE /\ rate_cache' = [rate_cache EXCEPT ![req[w].cache_key] = req[w].current_requests + 1]
          /\ chk' = [chk EXCEPT ![w] = can_make_request(svc[w], req[w].estimated_tokens, 0)]
          /\ pc' = [pc EXCEPT ![w] = "checked"]
          /\ passed' = [passed EXCEPT ![req[w].cache_key] = @ + 1]
          /\ UNCHANGED <<quota, usage, model, requests_per_minute, minute, svc, req,
                         started, lresponse, dispatched>>

\* The rest of generate_content called with the keyword argument contract:
\* the exception of a denied check, or the provider call and the recording of
\* its outcome.
FinishWith_dispatch_first(w, result, contract) ==
  /\ pc[w] = "checked"
  /\ UNCHANGED <<cvars, hvars>>
  /\ IF ~chk[w][1]
     THEN /\ RecordFailure(w, chk[w][2])
          /\ dispatched' = dispatched + 1
          /\ UNCHANGED <<rate_cache, chk, passed>>
     ELSE IF ~result.ok
     THEN /\ RecordFailure(w, "provider error")
          /\ dispatched' = dispatched + 1
          /\ UNCHANGED <<rate_cache, chk, passed>>
     ELSE LET tp == result.prompt_tokens
              tc == result.completion_tokens
              cost == record_cost(model, tp, tc)
              after == record_usage(svc[w], tp, tc, cost)
              created == LLMUsage_save(NewUsage(req[w].prompt, result, model), model)
          IN  /\ \E stored \in Quantize(cost, NanoPerMicro) :
                   LET saved == IF contract # None
                                THEN LLMUsage_save([created EXCEPT !.contract = contract],
                                                   model)
                                ELSE created
                   IN  usage' = Append(usage, StoredUsage(saved, stored))
              /\ \E cents \in Quantize(after.cost, NanoPerCent) :
                   quota' = [svc[w] EXCEPT !.tokens_used_current_month = after.tokens,
                                           !.requests_used_current_month = after.requests,
                                           !.cost_used_current_month = cents]
              /\ lresponse' = Resp(200, "none")
              /\ pc' = [pc EXCEPT ![w] = "idle"]
              /\ svc' = [svc EXCEPT ![w] = NoQuota]
              /\ req' = [req EXCEPT ![w] = NoReq]
              /\ dispatched' = dispatched + 1
              /\ UNCHANGED <<model, requests_per_minute, minute, rate_cache, chk, started,
                             passed>>

FinishWith(w, result, contract) ==
  /\ pc[w] = "checked"
  /\ UNCHANGED <<cvars, hvars>>
  /\ IF ~chk[w][1]
     THEN /\ RecordFailure(w, chk[w][2])
          /\ UNCHANGED <<rate_cache, chk, dispatched, passed>>
     ELSE IF ~result.ok
     THEN /\ RecordFailure(w, "provider error")
          /\ dispatched' = dispatched + 1
          /\ UNCHANGED <<rate_cache, chk, passed>>
     ELSE LET tp == result.prompt_tokens
              tc == result.completion_tokens
              cost == record_cost(model, tp, tc)
              after == record_usage(svc[w], tp, tc, cost)
              created == LLMUsage_save(NewUsage(req[w].prompt, result, model), model)
          IN  /\ \E stored \in Quantize(cost, NanoPerMicro) :
                   LET saved == IF contract # None
                                THEN LLMUsage_save([created EXCEPT !.contract = contract],
                                                   model)
                                ELSE created
                   IN  usage' = Append(usage, StoredUsage(saved, stored))
              /\ \E cents \in Quantize(after.cost, NanoPerCent) :
                   quota' = [svc[w] EXCEPT !.tokens_used_current_month = after.tokens,
                                           !.requests_used_current_month = after.requests,
                                           !.cost_used_current_month = cents]
              /\ lresponse' = Resp(200, "none")
              /\ pc' = [pc EXCEPT ![w] = "idle"]
              /\ svc' = [svc EXCEPT ![w] = NoQuota]
              /\ req' = [req EXCEPT ![w] = NoReq]
              /\ dispatched' = dispatched + 1
              /\ UNCHANGED <<model, requests_per_minute, minute, rate_cache, chk, started,
                             passed>>

\* generate_content as LLMRequestView.post calls it: validate_parameters
\* lets only temperature, max_tokens, top_p, frequency_penalty and
\* presence_penalty into the keyword arguments, never a contract.
Finish(w, result) == FinishWith(w, result, None)

\* The provider call returned but the row of the call cannot be written:
\* LLMUsage.objects.create in _record_usage raises.  The except branch of
\* generate_content handles it like any other failure.
FinishPersistFails(w, result) ==
  /\ pc[w] = "checked"
  /\ chk[w][1]
  /\ result.ok
  /\ UNCHANGED <<cvars, hvars>>
  /\ RecordFailure(w, "OperationalError")
  /\ dispatched' = dispatched + 1
  /\ UNCHANGED <<rate_cache, chk, passed>>

\* contracts/llm_service.py passes the names 'anthropic' / 'openai' and the
\* model name for the ForeignKeys provider and model of LLMUsage: Django
\* refuses a str for a ForeignKey with ValueError before any row is written.
ForeignKeyAcceptsName == FALSE

\* contracts.llm_service.LLMService._call_llm behind generate_clause and
\* edit_with_ai: the provider is called with no rate-limit or quota check,
\* the LLMUsage row is created directly, and LLMQuota.record_usage is never
\* called.  Every exception becomes "LLM service error" and the view
\* answers 500.
ContractCallLLM(result) ==
  /\ IF ~result.ok
     THEN /\ usage' = usage
          /\ lresponse' = Resp(500, "LLM service error: provider error")
     ELSE IF ~ForeignKeyAcceptsName
     THEN /\ usage' = usage
          /\ lresponse' = Resp(500, "LLM service error: ValueError")
     ELSE /\ usage' = Append(usage, [status |-> "success",
                                     tokens_prompt |-> result.prompt_tokens,
                                     tokens_completion |-> result.completion_tokens,
                                     tokens_total |-> result.prompt_tokens
                                                      + result.completion_tokens,
                                     cost_estimated |-> 0, cost_calculated |-> 0,
                                     input_context |-> <<>>,
                                     generated_content |-> Truncate(result.content),
                                     contract |-> Some("c1")])
          /\ lresponse' = Resp(200, "none")
  /\ UNCHANGED <<cvars, hvars>>
  /\ UNCHANGED <<quota, model, requests_per_minute, minute, rate_cache, pc, svc, req,
                 chk, started, dispatched, passed>>

\* A minute passes: the rate-limit key changes.
NextMinute ==
  /\ minute < MaxMinute
  /\ minute' = minute + 1
  /\ UNCHANGED <<cvars, hvars>>
  /\ UNCHANGED <<quota, usage, model, requests_per_minute, rate_cache, pc, svc, req,
                 chk, started, lresponse, dispatched, passed>>

\* llm/models.py imports no timezone: the name is bound only inside
\* LLMQuota.save, so its use in reset_usage raises NameError.
TimezoneInScope == FALSE

\* LLMQuota.reset_usage on a loaded row q: the row as it is stored when the
\* call returns or raises, and the exception raised.  The counters are zeroed
\* on the object before timezone.now() is evaluated; save() comes last.
reset_usage(q) ==
  IF ~TimezoneInScope
  THEN [row |-> q, raised |-> "NameError"]
  ELSE [row |-> [q EXCEPT !.tokens_used_current_month = 0,
                          !.requests_used_current_month = 0,
                          !.cost_used_current_month = 0,
                          !.last_reset_at = Some(now),
                          !.next_reset_at = Some(first_day_of_next_month(now))],
        raised |-> "none"]

\* QuotaResetView.post by a superuser for the organization: the view catches
\* DoesNotExist only, any other exception becomes a 500 answer.
QuotaReset ==
  /\ LET r == reset_usage(quota) IN
       /\ quota' = r.row
       /\ lresponse' = IF r.raised = "none"
                       THEN Resp(200, "Quota reset successfully")
                       ELSE Resp(500, r.raised)
  /\ UNCHANGED <<cvars, hvars>>
  /\ UNCHANGED <<usage, model, requests_per_minute, minute, rate_cache, pc, svc, req,
                 chk, started, dispatched, passed>>

Alone(w) == \A v \in Workers \ {w} : pc[v] = "idle"

\* ======================================================================
\* Organizational chart (apps/charts)
\* ======================================================================

\* Ids of entities and connections.  A client may send any id; an id made
\* from uuid4 is one nothing in the chart carries.
Ids == 1..MaxIds
EntityTypes == {"company", "person", "trust", "group"}
UpdateTypes == EntityTypes \cup {"connection"}
UpdateKeys == {"id", "source", "target", "name"}
ConnectionTypes == {<<"role", "trustee">>, <<"role", "friend">>, <<"owns">>}

\* The data of the chart OrgChartViewSet.retrieve creates.
EmptyChart ==
  [companies |-> <<>>, persons |-> <<>>, trusts |-> <<>>, groups |-> <<>>,
   connections |-> <<>>]
ChartInit == chart = EmptyChart /\ hresponse = 0

\* chart.data.get(section, [])
Section(data, section) == IF section \in DOMAIN data THEN data[section] ELSE <<>>

\* next(i for i, e in enumerate(entities) if e.get('id') == id, None): 0 for None.
IndexOf(entities, id) ==
  IF \E i \in 1..Len(entities) : entities[i].id = id
  THEN CHOOSE i \in 1..Len(entities) :
         entities[i].id = id /\ \A j \in 1..(i - 1) : entities[j].id # id
  ELSE 0

\* list.pop(i)
Pop(entities, i) == SubSeq(entities, 1, i - 1) \o SubSeq(entities, i + 1, Len(entities))

\* The list the key of add_company, add_person, add_trust and of the group
\* branch of add_entity names.
AddSection == [company |-> "companies", person |-> "persons", trust |-> "trusts",
               group |-> "groups"]

\* f'{entity_type}s' of update_entity and delete_entity.
PluralS == [company |-> "companys", person |-> "persons", trust |-> "trusts",
            group |-> "groups", connection |-> "connections"]

\* entity_type[:-1] of _get_entity_type.
AllButLast == [companies |-> "companie", persons |-> "person", trusts |-> "trust",
               groups |-> "group"]

UsedIds(data) ==
  UNION {{data[section][i].id : i \in 1..Len(data[section])} : section \in DOMAIN data}
  \cup {data.connections[i].source : i \in 1..Len(data.connections)}
  \cup {data.connections[i].target : i \in 1..Len(data.connections)}
EntityCount(data) ==
  Len(data.companies) + Len(data.persons) + Len(data.trusts) + Len(data.groups)

\* OrgChart._get_entity_type: "not found" stands for the ValidationError.
get_entity_type(data, entity_id) ==
  IF IndexOf(data.companies, entity_id) # 0 THEN AllButLast["companies"]
  ELSE IF IndexOf(data.persons, entity_id) # 0 THEN AllButLast["persons"]
  ELSE IF IndexOf(data.trusts, entity_id) # 0 THEN AllButLast["trusts"]
  ELSE IF IndexOf(data.groups, entity_id) # 0 THEN AllButLast["groups"]
  ELSE "not found"

\* OrgChart._get_connection_data: the role of "role:<value>", else none.
get_connection_data(connection_type) ==
  IF Len(connection_type) = 2 /\ connection_type[1] = "role"
  THEN Some(connection_type[2])
  ELSE None

\* OrgChart.validate_connection: TRUE when it returns, FALSE when it raises.
allowed_connections ==
  [company |-> {"company", "person", "trust"}, person |-> {"company", "trust"},
   trust |-> {"company", "person"}]
valid_roles == {"grantor", "beneficiary", "manager", "trustee"}
validate_connection(data, source_id, target_id, connection_type) ==
  LET source_type == get_entity_type(data, source_id)
      target_type == get_entity_type(data, target_id)
  IN  /\ source_type # "not found"
      /\ target_type # "not found"
      /\ source_type \in DOMAIN allowed_connections
      /\ target_type \in allowed_connections[source_type]
      /\ (source_type = "person" /\ target_type = "trust") =>
           get_connection_data(connection_type) \subseteq valid_roles
           /\ get_connection_data(connection_type) # None

\* dict.update(entity_data) for an entity_data of one key; keys the model
\* does not keep leave the modelled part of the entry as it is.
Update(entry, key, value) ==
  IF key \in DOMAIN entry THEN [entry EXCEPT ![key] = value] ELSE entry

\* OrgChartViewSet.add_entity: given is the 'id' of entity_data, if it has one.
add_entity(entity_type, given) ==
  /\ EntityCount(chart) < MaxEntities
  /\ \E entity_id \in IF entity_type # "group" /\ given # None
                       THEN given
                       ELSE Ids \ UsedIds(chart) :
       chart' = [chart EXCEPT ![AddSection[entity_type]] = Append(@, [id |-> entity_id])]
  /\ hresponse' = 200
  /\ UNCHANGED <<cvars, qvars>>

\* OrgChartViewSet.update_entity with entity_data = {key: value}.
update_entity(entity_id, entity_type, key, value) ==
  /\ LET section == PluralS[entity_type]
         entities == Section(chart, section)
         entity_index == IndexOf(entities, entity_id)
     IN  IF entity_index = 0
         THEN /\ hresponse' = 404
              /\ chart' = chart
         ELSE /\ chart' = [chart EXCEPT ![section] =
                             [entities EXCEPT ![entity_index] = Update(@, key, value)]]
              /\ hresponse' = 200
  /\ UNCHANGED <<cvars, qvars>>

\* OrgChartViewSet.delete_entity.
delete_entity(entity_id, entity_type) ==
  /\ LET section == PluralS[entity_type]
         entities == Section(chart, section)
         entity_index == IndexOf(entities, entity_id)
     IN  IF entity_index = 0
         THEN /\ hresponse' = 404
              /\ chart' = chart
         ELSE LET popped == [chart EXCEPT ![section] = Pop(entities, entity_index)]
              IN  /\ chart' = [popped EXCEPT !.connections =
                                 SelectSeq(@, LAMBDA conn : conn.source # entity_id
                                                            /\ conn.target # entity_id)]
                  /\ hresponse' = 200
  /\ UNCHANGED <<cvars, qvars>>

\* OrgChartViewSet.add_connection: validate_connection, then
\* OrgChart.add_connection with an id made from uuid4.
add_connection(source_id, target_id, connection_type) ==
  /\ Len(chart.connections) < MaxConnections
  /\ IF ~validate_connection(chart, source_id, target_id, connection_type)
     THEN /\ hresponse' = 400
          /\ chart' = chart
     ELSE /\ \E fresh \in Ids \ UsedIds(chart) :
               chart' = [chart EXCEPT !.connections =
                           Append(@, [id |-> fresh, source |-> source_id,
                                      target |-> target_id])]
          /\ hresponse' = 200
  /\ UNCHANGED <<cvars, qvars>>

\* OrgChartViewSet.delete_connection.
delete_connection(connection_id) ==
  /\ LET connection_index == IndexOf(chart.connections, connection_id)
     IN  IF connection_index = 0
         THEN /\ hresponse' = 404
              /\ chart' = chart
         ELSE /\ chart' = [chart EXCEPT !.connections = Pop(@, connection_index)]
              /\ hresponse' = 200
  /\ UNCHANGED <<cvars, qvars>>

vars == <<cvars, qvars, hvars>>

\* The contract workflow, one request at a time.
Init == ContractInit /\ QuotaInit /\ quota = NoQuota /\ model.input_price = 125
        /\ requests_per_minute = 1 /\ ChartInit
Next ==
  \/ Tick
  \/ send_for_signature
  \/ \E fault \in SendFaults : send_for_signature_fails(fault)
  \/ \E s \in ContractStatus : update_status(s)
  \/ \E f \in Fields : get_signing_url(f)
  \/ \E t \in Tokens, d \in SignatureData : PublicSigningPost(t, d)
Spec == Init /\ [][Next]_vars

\* LLM requests, each running to completion before the next begins.
QuotaInitAll == QuotaInit /\ ContractInit /\ ChartInit /\ \A f \in Fields : fields[f].required
QuotaSeqNext ==
  \/ \E w \in Workers, p \in Prompts : Alone(w) /\ Begin(w, p)
  \/ \E w \in Workers : Alone(w) /\ CheckLimits(w)
  \/ \E w \in Workers, result \in ProviderResults : Alone(w) /\ Finish(w, result)
  \/ \E w \in Workers, result \in ProviderResults : Alone(w) /\ FinishPersistFails(w, result)
  \/ NextMinute
  \/ (\A w \in Workers : pc[w] = "idle") /\ QuotaReset
QuotaSpec == QuotaInitAll /\ [][QuotaSeqNext]_vars

\* LLMService.generate_content called directly, with or without a contract,
\* for an organization without limits; one call at a time.
UsageInit == QuotaInitAll /\ quota = NoQuota /\ model.input_price = 125
             /\ requests_per_minute = 2
UsageNext ==
  \/ \E w \in Workers, p \in Prompts : Alone(w) /\ Begin(w, p)
  \/ \E w \in Workers : Alone(w) /\ CheckLimits(w)
  \/ \E w \in Workers, result \in ProviderResults, contract \in ContractArgs :
       Alone(w) /\ FinishWith(w, result, contract)
  \/ NextMinute
UsageSpec == UsageInit /\ [][UsageNext]_vars

\* Concurrent LLM requests of an organization without limits: the rate
\* limiter alone decides.
RateInit == QuotaInitAll /\ quota = NoQuota /\ model.input_price = 125
RateNext ==
  \/ \E w \in Workers, p \in Prompts : Begin(w, p)
  \/ \E w \in Workers : CheckLimits(w)
  \/ \E w \in Workers, result \in ProviderResults : Finish(w, result)
  \/ NextMinute
RateSpec == RateInit /\ [][RateNext]_vars

\* LLM requests of one organization handled by concurrent workers.
QuotaConcNext ==
  \/ \E w \in Workers, p \in Prompts : Begin(w, p)
  \/ \E w \in Workers : CheckLimits(w)
  \/ \E w \in Workers, result \in ProviderResults : Finish(w, result)
  \/ \E w \in Workers, result \in ProviderResults : FinishPersistFails(w, result)
  \/ \E result \in ProviderResults : ContractCallLLM(result)
  \/ NextMinute
  \/ QuotaReset
QuotaConcSpec == QuotaInitAll /\ [][QuotaConcNext]_vars

\* Signing requests for the fields of one contract handled by concurrent
\* workers.
SigningInit == Init /\ \A f \in Fields : fields[f].required
SigningConcNext ==
  \/ Tick
  \/ \E f \in Fields : get_signing_url(f)
  \/ \E s \in Signers, t \in Tokens, d \in SignatureData : SigningLoad(s, t, d)
  \/ \E s \in Signers : SigningSign(s)
SigningConcSpec == SigningInit /\ [][SigningConcNext]_vars

\* Requests to the entity and connection operations of the chart.
ChartNext ==
  \/ \E entity_type \in EntityTypes, given \in {None} \cup {Some(i) : i \in Ids} :
       add_entity(entity_type, given)
  \/ \E entity_id \in Ids, entity_type \in UpdateTypes, key \in UpdateKeys, value \in Ids :
       update_entity(entity_id, entity_type, key, value)
  \/ \E entity_id \in Ids, entity_type \in UpdateTypes : delete_entity(entity_id, entity_type)
  \/ \E source_id \in Ids, target_id \in Ids, connection_type \in ConnectionTypes :
       add_connection(source_id, target_id, connection_type)
  \/ \E connection_id \in Ids : delete_connection(connection_id)
ChartSpec == SigningInit /\ [][ChartNext]_vars

\* ======================================================================
\* Properties
\* ======================================================================

Expired == \E e \in expires_at : now > e
Signed(f) == fields[f].signed_data # ""

\* C1: signing is write-once.  Once a field holds signed data, a further call
\* of sign on it, with any data, raises the already-signed error and leaves
\* the row as it was; no request changes the signed data of a signed field,
\* and a further signing request for it is answered with an error (already
\* signed, or expired when the contract has expired meanwhile).
C1_WriteOnce ==
  /\ [](\A f \in Fields : Signed(f) =>
          \A d \in SignatureData :
            /\ sign(fields[f], d).raised = "Field has already been signed"
            /\ sign(fields[f], d).row = fields[f])
  /\ [][\A f \in Fields : Signed(f) =>
          /\ fields'[f].signed_data = fields[f].signed_data
          /\ \A t \in Tokens, d \in SignatureData :
               (fields[f].signing_token = Some(t) /\ PublicSigningPost(t, d)) =>
                 response' = IF Expired
                             THEN Resp(410, "This signing link has expired")
                             ELSE Resp(400, "This document has already been signed")]_vars

\* A signed field whose second signing request was refused as already signed.
C1_Witness ==
  /\ \E f \in Fields : Signed(f)
  /\ response = Resp(400, "This document has already been signed")

\* C2: completion law.  After at least one field was signed, the contract is
\* completed with completed_at set exactly when every required field has
\* signed data.
C2_CompletionLaw ==
  (\E f \in Fields : Signed(f)) =>
    ((status = "completed" /\ completed_at # None)
       <=> \A f \in Fields : fields[f].required => Signed(f))

\* C7: send is legal only from draft.  A send on a contract in any other
\* status is answered with the only-draft error and leaves status, sent_at,
\* expires_at and every field (its token included) unchanged.
C7_SendOnlyFromDraft ==
  [][(status # "draft" /\ send_for_signature) =>
       /\ response' = Resp(400, "Only draft contracts can be sent for signature")
       /\ UNCHANGED <<status, sent_at, expires_at, fields>>]_vars

\* A refused send of a cancelled contract that had been sent before.
C7_Witness ==
  /\ status = "cancelled"
  /\ sent_at # None
  /\ response = Resp(400, "Only draft contracts can be sent for signature")

\* C8: a signing request for a known token made after expires_at has passed
\* is answered as expired and changes no field; and no step at all changes
\* the signed data or signed_at of a field while the contract is expired.
C8_ExpiredRejected ==
  [][/\ \A t \in Tokens, d \in SignatureData :
          (Expired /\ FieldsByToken(t) # {} /\ PublicSigningPost(t, d)) =>
            /\ response' = Resp(410, "This signing link has expired")
            /\ fields' = fields
     /\ (\E f \in Fields : \/ fields'[f].signed_data # fields[f].signed_data
                           \/ fields'[f].signed_at # fields[f].signed_at)
          => ~Expired]_vars

\* An expired answer while a field that has a token is still unsigned.
C8_Witness ==
  /\ response = Resp(410, "This signing link has expired")
  /\ Expired
  /\ \E f \in Fields : fields[f].signing_token # None /\ ~Signed(f)

\* C9: the signing POST distinguishes its outcomes: unknown token 404, expired
\* contract 410, already signed field 400, success 200 only for an unsigned
\* field of a contract that is not expired; and a request that signed the
\* field is answered 200.
C9_SigningOutcomes ==
  [][\A t \in Tokens, d \in SignatureData : PublicSigningPost(t, d) =>
       LET m == FieldsByToken(t) IN
       /\ (m = {} => response'.code = 404)
       /\ (m # {} /\ Expired => response'.code = 410)
       /\ (m # {} /\ ~Expired /\ (\A f \in m : Signed(f)) =>
             response' = Resp(400, "This document has already been signed"))
       /\ (response'.code = 200 => m # {} /\ ~Expired /\ \A f \in m : ~Signed(f))
       /\ ((\E f \in m : ~Signed(f) /\ fields'[f].signed_data # "") =>
             response'.code = 200)]_vars

AllIdle == \A w \in Workers : pc[w] = "idle"
Successes == {i \in 1..Len(usage) : usage[i].status = "success"}

\* C3: no lost updates.  When no request is in flight and the successful
\* recordings so far all have the same tokens_total T, the quota's token
\* counter is (number of successes) * T and its request counter the number
\* of successes (both counters start at 0).
C3_NoLostUpdates ==
  (AllIdle /\ \A i, j \in Successes : usage[i].tokens_total = usage[j].tokens_total) =>
    /\ quota.requests_used_current_month = Cardinality(Successes)
    /\ \A i \in Successes :
         quota.tokens_used_current_month = Cardinality(Successes) * usage[i].tokens_total

DeniedForTokens(w) == chk[w] = <<FALSE, "Monthly token limit exceeded">>

\* C4: on a quota that is not suspended, the check denies with the token-limit
\* reason exactly when the limit L is not null and U + t > L; with a null
\* limit it never gives that reason.
C4_TokenLimit ==
  \A w \in Workers : (pc[w] = "checked" /\ ~svc[w].is_suspended) =>
    /\ \A l \in svc[w].monthly_token_limit :
         DeniedForTokens(w) <=>
           svc[w].tokens_used_current_month + req[w].estimated_tokens > l
    /\ (svc[w].monthly_token_limit = None => ~DeniedForTokens(w))

\* C5: whenever the quota is suspended the check denies with the suspended
\* reason, whatever the limits and counters are.
C5_SuspendedDenies ==
  \A w \in Workers : (pc[w] = "checked" /\ svc[w].is_suspended) =>
    chk[w] = <<FALSE, "LLM usage is suspended for this organization">>

\* A check on a suspended quota whose token limit the request would exceed.
C5_Witness ==
  \E w \in Workers :
    /\ pc[w] = "checked"
    /\ svc[w].is_suspended
    /\ \E l \in svc[w].monthly_token_limit :
         l # 0 /\ svc[w].tokens_used_current_month + req[w].estimated_tokens > l
    /\ chk[w] = <<FALSE, "LLM usage is suspended for this organization">>

\* C10: a step changes the three quota counters exactly when it records an
\* attempt with status success, and then by tokens_prompt + tokens_completion
\* tokens, one request and the calculated cost; every other step leaves the
\* three counters as they are.
C10_CountersFollowSuccess ==
  [][IF Len(usage') = Len(usage) + 1 /\ usage'[Len(usage')].status = "success"
     THEN LET u == usage'[Len(usage')] IN
          /\ quota'.tokens_used_current_month =
               quota.tokens_used_current_month + u.tokens_prompt + u.tokens_completion
          /\ quota'.requests_used_current_month = quota.requests_used_current_month + 1
          /\ quota'.cost_used_current_month * NanoPerCent =
               quota.cost_used_current_month * NanoPerCent
                 + calculate_cost(model, u.tokens_prompt, u.tokens_completion)
     ELSE /\ quota'.tokens_used_current_month = quota.tokens_used_current_month
          /\ quota'.requests_used_current_month = quota.requests_used_current_month
          /\ quota'.cost_used_current_month = quota.cost_used_current_month]_vars

\* C11: every attempt made through generate_content leaves a usage record:
\* whenever a request handler comes to its end, whether the request succeeded,
\* was refused by the rate limit or the quota check, or failed at the
\* provider, the step appends one row to the usage records.
C11_EveryAttemptPersisted ==
  [][\A w \in Workers : (pc[w] # "idle" /\ pc'[w] = "idle") =>
       Len(usage') = Len(usage) + 1]_vars

\* C12: a successful send of a draft contract sets status to sent and sent_at
\* to the current time; it sets expires_at to now + 30 days when expires_at
\* was null and leaves an expires_at that was already set as it was.
C12_SendEffects ==
  [][(status = "draft" /\ send_for_signature /\ response'.code = 200) =>
       /\ status' = "sent"
       /\ sent_at' = Some(now)
       /\ (expires_at = None => expires_at' = Some(now + DEFAULT_EXPIRY_DAYS))
       /\ (expires_at # None => expires_at' = expires_at)]_vars

\* A contract sent on day 30 whose expires_at, set by an earlier send on day
\* 0, was kept (a default computed on day 30 would be day 60).
C12_Witness ==
  /\ status = "sent"
  /\ sent_at = Some(DEFAULT_EXPIRY_DAYS)
  /\ expires_at = Some(DEFAULT_EXPIRY_DAYS)
  /\ response = Resp(200, "none")

\* C13: after a successful send every signature field of the contract has a
\* non-empty signing token stored with it.
C13_TokensStoredAfterSend ==
  [][(send_for_signature /\ response'.code = 200) =>
       \A f \in Fields : fields'[f].signing_token # None]_vars

C25_TokenNotConsumed ==
  [][\A t \in Tokens, d \in SignatureData : PublicSigningPost(t, d) =>
       /\ \A u \in Tokens : FieldsByToken(u)' = FieldsByToken(u)
       /\ (response'.code = 404 <=> FieldsByToken(t) = {})]_vars

\* A field just signed that can still be looked up by its token.
C25_Witness ==
  \E f \in Fields, t \in Tokens :
    /\ Signed(f)
    /\ FieldsByToken(t) = {f}
    /\ response = Resp(400, "NameError")

\* C26: a step that signs a field stamps the party's signed_at and signing_ip
\* exactly when the field's type is signature; signing a field of another
\* type leaves the party's signing information as it was.
C26_PartyStamping ==
  [][\A f \in Fields : (~Signed(f) /\ fields'[f].signed_data # "") =>
       IF fields[f].field_type = "signature"
       THEN party' = [signed_at |-> Some(now), signing_ip |-> Some(IpAddress)]
       ELSE party' = party]_vars

\* C29: no signature field of a contract whose status is draft has signed
\* data.
C29_NoSigningInDraft ==
  status = "draft" => \A f \in Fields : ~Signed(f)

\* C22: when the provider call succeeded and writing its usage row fails, the
\* failure reaches the client as a server error (5xx) and no row is written
\* for the call.
C22_PersistFailureIs5xx ==
  [][\A w \in Workers, result \in ProviderResults :
       FinishPersistFails(w, result) => lresponse'.code >= 500 /\ usage' = usage]_vars

\* C23: generate_content calls the provider only in a request whose quota
\* check allowed it, appends a success row only in the step that made the
\* provider call, and a request turned away by the rate limit or by the
\* quota check ends without a provider call.
C23_Ordering ==
  [][/\ dispatched' # dispatched =>
          /\ dispatched' = dispatched + 1
          /\ \E w \in Workers : pc[w] = "checked" /\ chk[w][1] /\ pc'[w] = "idle"
     /\ (Len(usage') > Len(usage) /\ usage'[Len(usage')].status = "success") =>
          dispatched' = dispatched + 1
     /\ \A w \in Workers :
          (pc'[w] = "idle" /\ (pc[w] = "rate" \/ (pc[w] = "checked" /\ ~chk[w][1]))) =>
            dispatched' = dispatched]_vars
C23_Witness ==
  /\ AllIdle /\ started = 2 /\ requests_per_minute = 2 /\ rate_cache[0] = 2
  /\ Len(usage) = 1 /\ usage[1].status = "success"
  /\ dispatched = 1 /\ lresponse.code = 400

\* C27: the counter of a minute never exceeds requests_per_minute and never
\* exceeds the number of requests let through in that minute, so as long as
\* the counter is exact at most requests_per_minute requests pass; with
\* concurrent requests the counter loses increments and more can pass.
C27_RateLimiter ==
  \A k \in 0..MaxMinute :
    /\ rate_cache[k] <= requests_per_minute
    /\ rate_cache[k] <= passed[k]
    /\ (rate_cache[k] = passed[k] => passed[k] <= requests_per_minute)
C27_Witness == \E k \in 0..MaxMinute : passed[k] > requests_per_minute
C27_SequentialBound == \A k \in 0..MaxMinute : passed[k] <= requests_per_minute

\* C28: whenever no request is in progress, the quota's token counter equals
\* the sum of tokens_total over the success rows and its request counter
\* equals the number of success rows, whichever entry point made the calls.
RECURSIVE SuccessTokens(_)
SuccessTokens(n) ==
  IF n = 0 THEN 0
  ELSE SuccessTokens(n - 1) + (IF usage[n].status = "success" THEN usage[n].tokens_total ELSE 0)
C28_AccountingInvariant ==
  AllIdle =>
    /\ quota.tokens_used_current_month = SuccessTokens(Len(usage))
    /\ quota.requests_used_current_month = Cardinality(Successes)

\* C24: a stored usage row never changes, and the row a request appends is
\* the row as LLMUsage.objects.create wrote it, but for its contract: the
\* re-save of the contract backfill leaves every other field, the truncated
\* texts included, as it was.
C24_AppendOnly ==
  [][/\ Len(usage') >= Len(usage)
     /\ \A i \in 1..Len(usage) : usage'[i] = usage[i]
     /\ \A w \in Workers :
          (pc[w] = "checked" /\ pc'[w] = "idle" /\ Len(usage') = Len(usage) + 1) =>
            \E result \in ProviderResults :
              \E stored \in Quantize(record_cost(model, result.prompt_tokens,
                                                  result.completion_tokens), NanoPerMicro) :
                LET u == usage'[Len(usage')]
                    created == StoredUsage(LLMUsage_save(NewUsage(req[w].prompt, result,
                                                                  model), model), stored)
                IN  u = [created EXCEPT !.contract = u.contract]]_vars
C24_Witness ==
  /\ Len(usage) >= 2
  /\ usage[1].contract # None
  /\ Len(usage[1].input_context) = TextLimit + Len(Ellipsis)
  /\ Len(usage[1].generated_content) = TextLimit + Len(Ellipsis)

\* C30: every stored connection's source and target are ids of entities of
\* the chart.
C30_ReferentialIntegrity ==
  \A i \in 1..Len(chart.connections) :
    /\ get_entity_type(chart, chart.connections[i].source) # "not found"
    /\ get_entity_type(chart, chart.connections[i].target) # "not found"

\* C14: between two resets no step lowers a usage counter of the stored
\* quota: tokens, requests and cost used are each non-decreasing.
C14_CountersMonotonic ==
  [][\/ QuotaReset
     \/ /\ quota'.tokens_used_current_month >= quota.tokens_used_current_month
        /\ quota'.requests_used_current_month >= quota.requests_used_current_month
        /\ quota'.cost_used_current_month >= quota.cost_used_current_month]_vars

\* C15: a quota reset leaves the stored quota with its three usage counters
\* at zero and next_reset_at at the first day of the following month.
C15_ResetZeroes ==
  [][QuotaReset =>
       /\ quota'.tokens_used_current_month = 0
       /\ quota'.requests_used_current_month = 0
       /\ quota'.cost_used_current_month = 0
       /\ quota'.next_reset_at = Some(first_day_of_next_month(now))]_vars

LifecycleEdges ==
  {<<"draft", "sent">>, <<"sent", "viewed">>, <<"sent", "signed">>,
   <<"viewed", "signed">>, <<"signed", "completed">>}
  \cup ({"sent", "signed"} \X {"expired", "declined", "cancelled"})

\* C16: the status of a contract changes only along the lifecycle edges
\* draft -> sent -> (viewed) -> signed -> completed and from sent or signed
\* to expired, declined or cancelled: no step moves a contract back to
\* draft or out of completed, expired, declined or cancelled.
C16_LifecycleEdges ==
  [][status' # status => <<status, status'>> \in LifecycleEdges]_vars

\* The decision the admission check is to give: suspension, then each
\* dimension whose limit is not null, in the order tokens, requests, cost.
AdmissionInOrder(q, estimated_tokens, estimated_cost) ==
  IF q.is_suspended
  THEN <<FALSE, "LLM usage is suspended for this organization">>
  ELSE IF \E l \in q.monthly_token_limit : q.tokens_used_current_month + estimated_tokens > l
  THEN <<FALSE, "Monthly token limit exceeded">>
  ELSE IF \E l \in q.monthly_request_limit : q.requests_used_current_month + 1 > l
  THEN <<FALSE, "Monthly request limit exceeded">>
  ELSE IF \E l \in q.monthly_cost_limit : q.cost_used_current_month + estimated_cost > l
  THEN <<FALSE, "Monthly cost limit exceeded">>
  ELSE <<TRUE, "OK">>

\* C17: the admission check tests suspension, token limit, request limit and
\* cost limit in this order, skips a dimension whose limit is null, returns
\* the reason of the first failing test and allows exactly when none fails.
C17_CheckOrder ==
  \A w \in Workers : pc[w] = "checked" =>
    chk[w] = AdmissionInOrder(svc[w], req[w].estimated_tokens, 0)

\* C18: the admission check is a pure read.  The step that makes it, whether
\* it allows or denies, leaves the stored quota as it is, and the quota
\* object the handler holds is after the check what it was before.
C18_CheckIsPure ==
  [][\A w \in Workers : CheckLimits(w) =>
       /\ quota' = quota
       /\ (pc'[w] = "checked" => svc'[w] = svc[w])]_vars

\* A denied check on a quota that has usage recorded, the stored quota still
\* being what the handler loaded.
C18_Witness ==
  \E w \in Workers :
    /\ pc[w] = "checked"
    /\ ~chk[w][1]
    /\ svc[w].tokens_used_current_month > 0
    /\ quota = svc[w]

\* C19: concurrent signing requests for one field are serialized by the
\* write-once precondition: the signed data a field holds is the first
\* writer's, no later step replaces it.
C19_FirstWriterWins ==
  [][\A f \in Fields : Signed(f) =>
       fields'[f].signed_data = fields[f].signed_data]_vars

\* C20: check-then-record race bound.  When a request records its usage and
\* another request of the organization passed the check on the same counters
\* (it is past its check now, or it has recorded since this one loaded the
\* quota), the stored token counter exceeds the configured limit by at most
\* the tokens of the request recorded.
C20_RaceBound ==
  [][\A w \in Workers :
       (/\ pc[w] = "checked" /\ pc'[w] = "idle"
        /\ Len(usage') = Len(usage) + 1
        /\ \/ \E v \in Workers \ {w} : pc[v] = "checked" /\ chk[v][1]
           \/ svc[w] # quota)
       => \A l \in quota.monthly_token_limit :
            quota'.tokens_used_current_month <= l + usage'[Len(usage')].tokens_total]_vars

====
